---- MODULE Spec2Model ----
(***************************************************************************)
(* Request pipeline of ApiClient (src/src/client/ApiClient.ts): the        *)
(* cancellation token, the three interceptor chains, the per-host rate     *)
(* limit queue, the retry controller, both transport paths (fetch and      *)
(* XMLHttpRequest) and the all() combinator.                               *)
(*                                                                         *)
(* One action is one synchronous run of the JavaScript code between two    *)
(* suspension points (await / timer / transport callback).                 *)
(***************************************************************************)
EXTENDS Integers, Sequences, FiniteSets, TLC

\* ------------------------------------------------------------------ bounds
MaxRetries == 2
\* the longest interceptor chain add*Interceptor is called on
MaxChainLen == 2

\* --------------------------------------------------------- program constants
DefaultTimeout == 10000
DefaultRetryDelay == 1000

DefaultRetryStatusCodes == {408, 429, 500, 502, 503, 504}

\* ------------------------------------------------------------ value domains
Reqs == {1, 2, 3}
Hosts == {"a.example", "b.example"}
Methods == {"GET", "POST"}
\* "text" stands for every type that hands the body over undecoded
\* (text, blob, arrayBuffer)
ResponseTypes == {"json", "text"}
Statuses == {200, 404, 429, 503}
Bodies == {"", "{json}", "<bad>"}
ContentTypes == {"application/json", "text/html"}
RetryStatusCodeSets == {DefaultRetryStatusCodes, {404}}
\* cancel(reason) arguments: "" stands for an omitted reason
Reasons == {"", "timeout"}
\* the interceptor functions registered while requests are under way
Functions == {"f"}

Null == "null"
Undefined == "undefined"
NotCancelled == "<pending>"
NoPromise == <<0, 0>>
Untraced == <<"untraced">>
Released == <<0, 1>>

\* ------------------------------------------------------------------- errors
\* An Error object: constructor name, ApiError.statusCode (0 when undefined
\* or 0, both falsy), the message as a sequence of fragments,
\* ApiError.responseData, and the error interceptors that returned it.
MkError(name, status, msg, data) ==
  [name |-> name, status |-> status, msg |-> msg, data |-> data, via |-> <<>>]

NoError == MkError("none", 0, <<>>, Null)

\* The substrings that ApiError's predicates look for, per message fragment.
Keywords(fragment) ==
  CASE fragment = "Request timed out after " -> {"timed out"}
    [] fragment = "timeout" -> {"timeout"}
    [] fragment = "Request canceled: " -> {"cancel"}
    [] fragment = "Request canceled" -> {"cancel"}
    [] fragment = "Batch cancellation" -> {"cancel"}
    [] fragment = "Operation canceled by user" -> {"cancel"}
    [] fragment = "The operation was aborted" -> {"abort"}
    [] fragment = "Network error occurred" -> {"network"}
    [] fragment = "Failed to fetch" -> {"fetch"}
    [] OTHER -> {}

\* String.prototype.includes on a message
Includes(msg, needle) == \E i \in 1..Len(msg) : needle \in Keywords(msg[i])

isTimeoutError(e) == Includes(e.msg, "timeout") \/ Includes(e.msg, "timed out")

isCancellationError(e) == Includes(e.msg, "cancel") \/ Includes(e.msg, "abort")

\* throwIfRequested's error
CancelError(r) == MkError("ApiError", 0, <<"Request canceled: ", r>>, r)

\* fetch rejects with a TypeError when no response is obtained
NetworkError == MkError("TypeError", 0, <<"Failed to fetch">>, Undefined)

\* fetch rejects with a DOMException named AbortError when its signal aborts
AbortError == MkError("AbortError", 0, <<"The operation was aborted">>, Undefined)

\* fetchWithTimeout / fetchWithProgressTracking turn an AbortError into this
TimeoutError == MkError("Error", 0, <<"Request timed out after ", "ms">>, Undefined)

StatusError(status, data) ==
  MkError("ApiError", status, <<"Request failed with status ", ToString(status)>>, data)

ProcessError(status, inner) ==
  MkError("ApiError", status, <<"Failed to process response: ">> \o inner, Undefined)

ParseMessage == <<"Failed to parse JSON response: ", "Unexpected token">>

\* ------------------------------------------------------- retry controller
\* Variant: every rejected status of 400 and above counts as a server error
shouldRetryClientErrors(error, retryStatusCodes) ==
  IF error.name = "TypeError" THEN TRUE
  ELSE IF error.name = "ApiError" THEN
    \/ (error.status # 0 /\ error.status \in retryStatusCodes)
    \/ (error.status # 0 /\ error.status >= 400 /\ error.status < 600)
    \/ isTimeoutError(error)
  ELSE FALSE

shouldRetry(error, retryStatusCodes) ==
  IF error.name = "TypeError" THEN TRUE
  ELSE IF error.name = "ApiError" THEN
    \/ (error.status # 0 /\ error.status \in retryStatusCodes)
    \/ (error.status # 0 /\ error.status >= 500 /\ error.status < 600)
    \/ isTimeoutError(error)
  ELSE FALSE

RECURSIVE Pow2(_)
Pow2(n) == IF n <= 0 THEN 1 ELSE 2 * Pow2(n - 1)

\* delay * Math.pow(2, exponent), in units of 2^-MaxRetries ms so that the
\* fractional values of a negative exponent stay integers
ScaledDelay(delay, exponent) == delay * Pow2(exponent + MaxRetries)

\* -------------------------------------------------------------------- state
VARIABLES
  defaultOptions,        \* ApiClient.defaultOptions
  requestInterceptors,   \* ApiClient.requestInterceptors
  responseInterceptors,  \* ApiClient.responseInterceptors
  errorInterceptors,     \* ApiClient.errorInterceptors
  rateLimitQueue,        \* ApiClient.rateLimitQueue: host -> promise
  timers,                \* pending 100ms spacing timers (by promise)
  reason,                \* CancelToken._reason
  callbacks,             \* CancelToken._callbacks
  active,                \* the logical requests the caller issues
  req,                   \* per logical request: the frame of request()
  hist,                  \* per logical request: what has been observed
  allResult,             \* the tuple returned by all(), once it returned
  removed,               \* the registrations whose removal function was called
  invoked,               \* the token's callbacks that were run, in order
  registered             \* the registrations made with add*Interceptor

vars == <<defaultOptions, requestInterceptors, responseInterceptors,
          errorInterceptors, rateLimitQueue, timers, reason, callbacks,
          active, req, hist, allResult, removed, invoked, registered>>

client == <<defaultOptions, requestInterceptors, responseInterceptors,
            errorInterceptors, active, removed, registered>>

NoResponse == [status |-> 0, body |-> "", ctype |-> ""]

\* The responses the transport may deliver: every status, every kind of
\* body, both content types
Responses ==
  { resp \in [status : Statuses, body : Bodies, ctype : ContentTypes] :
      \/ resp.status = 200 /\ resp.ctype = "application/json"
      \/ resp.status = 404
      \/ resp.status \in {429, 503} /\ resp.body = "{json}"
                                    /\ resp.ctype = "application/json" }

\* RequestOptions of one call; "given" lists the options the call sets
\* itself, every other option comes from defaultOptions (mergeOptions).
\* useXHR stands for useXMLHttpRequest together with a progress callback.
OptionSpace ==
  { o \in [method : Methods, host : Hosts, useXHR : BOOLEAN,
           given : SUBSET {"retries", "timeout"},
           retries : 0..MaxRetries, timeout : {0},
           cancelToken : BOOLEAN, responseType : ResponseTypes] :
      "retries" \notin o.given => o.retries = 0 }

\* Variant: the retries of the call are ignored, those of the client apply
mergeOptionsDefaults(options) ==
  [method |-> options.method,
   host |-> options.host,
   useXHR |-> options.useXHR,
   cancelToken |-> options.cancelToken,
   responseType |-> options.responseType,
   retryStatusCodes |-> defaultOptions.retryStatusCodes,
   retryDelay |-> defaultOptions.retryDelay,
   retries |-> defaultOptions.retries,
   timeout |-> IF "timeout" \in options.given THEN options.timeout
               ELSE defaultOptions.timeout]

mergeOptions(options) ==
  [method |-> options.method,
   host |-> options.host,
   useXHR |-> options.useXHR,
   cancelToken |-> options.cancelToken,
   responseType |-> options.responseType,
   retryStatusCodes |-> defaultOptions.retryStatusCodes,
   retryDelay |-> defaultOptions.retryDelay,
   retries |-> IF "retries" \in options.given THEN options.retries
               ELSE defaultOptions.retries,
   timeout |-> IF "timeout" \in options.given THEN options.timeout
               ELSE defaultOptions.timeout]

InitFrame(o) ==
  [pc |-> "idle", options |-> o, retries |-> 0, attempt |-> 0,
   arr |-> <<>>, idx |-> 0, error |-> NoError, response |-> NoResponse,
   abort |-> "none", sent |-> FALSE, waitOn |-> NoPromise,
   gone |-> {}, err |-> NoError, data |-> Null, rank |-> 0,
   live |-> FALSE, snapshot |-> <<>>, interceptedRequest |-> <<>>,
   interceptedResponse |-> <<>>]

\* A failed attempt: its cause, the status of the error, the attempt number,
\* the retry budget left and the dispatches made when it failed
Failure(kind, error, rq, h) ==
  [kind |-> kind, status |-> error.status, attempt |-> rq.attempt,
   left |-> rq.retries, disp |-> h.dispatches, retried |-> FALSE]

NoFail ==
  [kind |-> "none", status |-> 0, attempt |-> 0, left |-> 0, disp |-> 0,
   retried |-> FALSE]

\* The failure is recorded: transportFails counts the failures of the
\* transport call itself (no response, rejected status, timeout)
Record(h, f) ==
  [h EXCEPT !.nFails = @ + 1, !.lastFail = f,
            !.transportFails = IF f.kind \in {"network", "status", "timeout"}
                               THEN @ + 1 ELSE @]

InitHist ==
  [dispatches |-> 0, errRuns |-> 0, waits |-> <<>>, nFails |-> 0,
   transportFails |-> 0, lastFail |-> NoFail, budget |-> 0,
   preCancelled |-> FALSE, cancelledInFlight |-> FALSE,
   aborted |-> FALSE, termErr |-> NoError, body |-> Null,
   backToBack |-> FALSE, near |-> {}, open |-> FALSE, gates |-> {},
   known |-> {}, validated |-> <<>>]

\* The registrations made with add*Interceptor before the first request, whose removal
\* function the caller kept (the logging interceptor of the constructor has none)
Registrations == {<<"request", "q">>, <<"response", "p">>, <<"error", "e">>}

\* The state after `new ApiClient(baseUrl, defaultOptions)` and the
\* registrations made before the first request; requests not yet issued.
InitClient ==
  /\ defaultOptions \in [retries : 0..MaxRetries,
                         retryDelay : {DefaultRetryDelay},
                         retryStatusCodes : RetryStatusCodeSets,
                         timeout : {DefaultTimeout}]
  /\ requestInterceptors = <<"q">>
  /\ responseInterceptors = <<"p">>
  /\ errorInterceptors = <<"log", "e">>
  /\ rateLimitQueue = [h \in Hosts |-> NoPromise]
  /\ timers = {}
  /\ reason = NotCancelled
  /\ callbacks = <<>>
  /\ hist = [r \in Reqs |-> InitHist]
  /\ allResult = [err |-> NoError, data |-> <<>>, hasData |-> FALSE,
                  returned |-> FALSE]
  /\ removed = {}
  /\ registered = Registrations

\* The locals of a frame that has left its try block are dead
Leave(rq) ==
  [rq EXCEPT !.arr = <<>>, !.idx = 0, !.response = NoResponse,
             !.abort = "none", !.sent = FALSE, !.waitOn = NoPromise,
             !.error = NoError, !.gone = {}, !.live = FALSE, !.snapshot = <<>>,
             !.interceptedRequest = <<>>, !.interceptedResponse = <<>>]

\* The promise of request() settles: the frame is left, and the position of
\* this settlement among those of the issued requests is noted
Finish(rq, pc) ==
  [Leave(rq) EXCEPT !.pc = pc,
     !.rank = Cardinality({x \in Reqs : req[x].pc \in {"done", "rejected"}}) + 1]

\* ----------------------------------------------------- catch block of request
\* ApiClient.retryRequest up to its timer: the wait is recorded
retryRequest(rq, h, retriesLeft) ==
  LET delay == mergeOptions(rq.options).retryDelay
      adjustedDelay == ScaledDelay(delay, defaultOptions.retries - retriesLeft)
  IN [rq |-> [Leave(rq) EXCEPT !.pc = "backoff"],
      h |-> [h EXCEPT !.waits = Append(@, adjustedDelay), !.lastFail.retried = TRUE]]

\* ApiClient.applyErrorInterceptors up to its first await
applyErrorInterceptors(rq, h, error) ==
  LET h1 == [h EXCEPT !.errRuns = @ + 1, !.termErr = error]
  IN IF errorInterceptors = <<>>
     THEN [rq |-> [Finish(rq, "done") EXCEPT !.err = error, !.data = Null],
           h |-> h1]
     ELSE [rq |-> [Leave(rq) EXCEPT !.pc = "errChain", !.arr = errorInterceptors,
                             !.snapshot = errorInterceptors, !.live = TRUE,
                             !.gone = removed, !.idx = 1, !.error = error],
           h |-> h1]

\* Variant: the error chain is run on every failed attempt, before the
\* retry decision
CatchIntercepts(rq, h, error, kind) ==
  LET h1 == Record(h, Failure(kind, error, rq, h))
      h2 == [h1 EXCEPT !.errRuns = @ + 1]
  IN IF rq.retries > 0
        /\ shouldRetry(error, mergeOptions(rq.options).retryStatusCodes)
     THEN retryRequest(rq, h2, rq.retries)
     ELSE applyErrorInterceptors(rq, h1, error)

\* catch (error) of request(): retry, or hand the error to the error chain
Catch(rq, h, error, kind) ==
  LET h1 == Record(h, Failure(kind, error, rq, h))
  IN IF rq.retries > 0
        /\ shouldRetry(error, mergeOptions(rq.options).retryStatusCodes)
     THEN retryRequest(rq, h1, rq.retries)
     ELSE applyErrorInterceptors(rq, h1, error)

\* ------------------------------------------------------ request(): the try
Set(r, res) ==
  /\ req' = [req EXCEPT ![r] = res.rq]
  /\ hist' = [hist EXCEPT ![r] = res.h]

\* Error thrown by a user interceptor
InterceptorError(name) == MkError(name, 0, <<"interceptor failed">>, Undefined)

\* Variant: one gate for every host
domainShared(rq) == "a.example"

\* new URL(url).hostname of the request
domain(rq) == rq.options.host

\* The GET requests to the host of r whose transport call was made and no
\* 100ms timer has fired since, as r's own call is made
Near(hh, r) ==
  { x \in active \ {r} :
      /\ req[x].options.method = "GET" /\ req[r].options.method = "GET"
      /\ domain(req[x]) = domain(req[r])
      /\ hh[x].dispatches >= 1 /\ hh[x].open }

\* The transport call of r is made
Dispatched(hh, r, h) ==
  [h EXCEPT !.dispatches = @ + 1, !.open = TRUE, !.near = @ \cup Near(hh, r)]

\* The log of the callbacks run, with more of them run
Logged(inv, entries) == IF inv = Untraced THEN inv ELSE inv \o entries

\* Variant: the callback is put on the list whatever the state of the token
registerAlwaysPushes(tk, entry) ==
  [cbs |-> Append(tk.cbs, entry), inv |-> tk.inv, ran |-> FALSE]

\* CancelToken.register on the token tk (its callback list and the log of
\* the callbacks run): on a cancelled token the callback runs at once with
\* the stored reason, otherwise it is put on the list
register(tk, entry) ==
  IF reason # NotCancelled
  THEN [cbs |-> tk.cbs, ran |-> TRUE,
        inv |-> Logged(tk.inv, <<entry \o <<reason, "register">>>>)]
  ELSE [cbs |-> Append(tk.cbs, entry), inv |-> tk.inv, ran |-> FALSE]

\* requestWithXHR: handlers installed, callback registered on the token,
\* xhr.send() called.  A callback registered on a cancelled token runs at
\* once and resolves the promise; send() is still called after it.
requestWithXHR(r, rq, h, hh, tk) ==
  LET sentH == Dispatched(hh, r, h)
      tk2 == IF rq.options.cancelToken
             THEN register(tk, <<r, rq.attempt, "xhr">>)
             ELSE [cbs |-> tk.cbs, inv |-> tk.inv, ran |-> FALSE]
  IN IF tk2.ran
     THEN [rq |-> [Finish(rq, "done") EXCEPT !.err = MkError("ApiError", 0,
                                                <<"Request canceled">>, reason),
                                      !.data = Null],
           hh |-> [hh EXCEPT ![r] = sentH],
           tk |-> tk2]
     ELSE [rq |-> [rq EXCEPT !.pc = "xhr", !.sent = TRUE],
           hh |-> [hh EXCEPT ![r] = sentH],
           tk |-> tk2]

\* Variant: the request interceptors are applied on the first attempt only
applyRequestInterceptorsOnce(rq) ==
  IF rq.attempt > 1
  THEN [rq EXCEPT !.pc = "reqChain", !.arr = <<>>, !.snapshot = <<>>,
                  !.live = TRUE, !.interceptedRequest = <<>>, !.gone = removed,
                  !.idx = 0]
  ELSE [rq EXCEPT !.pc = "reqChain", !.arr = requestInterceptors,
                  !.snapshot = requestInterceptors, !.live = TRUE,
                  !.interceptedRequest = <<>>, !.gone = removed,
                  !.idx = IF requestInterceptors = <<>> THEN 0 ELSE 1]

\* applyRequestInterceptors up to its first await
applyRequestInterceptors(rq) ==
  [rq EXCEPT !.pc = "reqChain", !.arr = requestInterceptors,
             !.snapshot = requestInterceptors, !.live = TRUE,
             !.interceptedRequest = <<>>, !.gone = removed,
             !.idx = IF requestInterceptors = <<>> THEN 0 ELSE 1]

\* Variant: the check before the transport is left out
throwIfRequestedNever(cancelToken) == FALSE

\* CancelToken.throwIfRequested: does it throw?
throwIfRequested(cancelToken) == cancelToken /\ reason # NotCancelled

\* request() from its first line to its first suspension point, given the
\* observations hh and the token tk so far
Entered(r, rq0, hh, tk) ==
  LET m == mergeOptions(rq0.options)
      rq == [rq0 EXCEPT !.retries = m.retries, !.attempt = @ + 1,
                        !.abort = "none", !.sent = FALSE,
                        !.response = NoResponse, !.error = NoError,
                        !.arr = <<>>, !.idx = 0, !.waitOn = NoPromise,
                        !.live = FALSE, !.snapshot = <<>>,
                        !.interceptedRequest = <<>>, !.interceptedResponse = <<>>]
      h == IF rq.attempt = 1
           THEN [hh[r] EXCEPT !.budget = m.retries,
                   !.preCancelled = (m.cancelToken /\ reason # NotCancelled),
                   !.backToBack = \A x \in active \ {r} : hh[x].dispatches = 0,
                   !.known = removed]
           ELSE [hh[r] EXCEPT !.lastFail = NoFail, !.validated = <<>>]
      out(res) == [rq |-> res.rq, hh |-> [hh EXCEPT ![r] = res.h], tk |-> tk]
  IN IF throwIfRequested(m.cancelToken)
     THEN out(Catch(rq, h, CancelError(reason), "cancel"))
     ELSE IF m.useXHR
     THEN requestWithXHR(r, rq, h, hh, tk)
     ELSE out([rq |-> applyRequestInterceptors(rq), h |-> h])

Enter(r, rq0, h0) ==
  LET res == Entered(r, rq0, [hist EXCEPT ![r] = h0],
                     [cbs |-> callbacks, inv |-> invoked])
  IN /\ req' = [req EXCEPT ![r] = res.rq]
     /\ hist' = res.hh
     /\ callbacks' = res.tk.cbs
     /\ invoked' = res.tk.inv

\* A public operation (get, post, ..., postForm, postUrlEncoded) is called
Call(r) ==
  /\ r \in active
  /\ req[r].pc = "idle"
  /\ Enter(r, req[r], hist[r])
  /\ UNCHANGED <<client, rateLimitQueue, timers, reason, allResult>>

\* Variant: a retry costs two units of the budget
newOptionsTwice(options, retriesLeft) ==
  [options EXCEPT !.retries = IF retriesLeft >= 2 THEN retriesLeft - 2 ELSE 0,
                  !.given = @ \cup {"retries"}]

\* The options retryRequest calls request() with
newOptions(options, retriesLeft) ==
  [options EXCEPT !.retries = retriesLeft - 1, !.given = @ \cup {"retries"}]

\* The backoff timer of retryRequest fires: request() is called again
BackoffTimer(r) ==
  /\ req[r].pc = "backoff"
  /\ Enter(r, [req[r] EXCEPT !.options = newOptions(@, req[r].retries)], hist[r])
  /\ UNCHANGED <<client, rateLimitQueue, timers, reason, allResult>>

\* fetchWithTimeout / fetchWithProgressTracking call fetch().  With a
\* timeout the request handed to fetch carries the timeout controller's
\* signal only (new Request(request, {signal}) replaces the signal); without
\* one it carries the cancel token's signal, and fetch does not send a
\* request whose signal is already aborted.
Fetch(r, rq, h) ==
  IF mergeOptions(rq.options).timeout = 0 /\ rq.abort = "aborted"
  THEN [rq |-> [rq EXCEPT !.pc = "fetch", !.sent = FALSE], h |-> h]
  ELSE [rq |-> [rq EXCEPT !.pc = "fetch", !.sent = TRUE],
        h |-> Dispatched(hist, r, h)]

\* The new rate limit promise is stored and its timer started, then fetch
InstallAndFetch(r, rq, h) ==
  /\ rateLimitQueue' = [rateLimitQueue EXCEPT ![domain(rq)] = <<r, rq.attempt>>]
  /\ timers' = timers \cup {<<r, rq.attempt>>}
  /\ Set(r, Fetch(r, rq, [h EXCEPT !.gates = @ \cup {domain(rq)}]))

\* Variant: every interceptor is handed the input of the chain
OutputOfInput(i, value) == IF i = "log" THEN value ELSE <<i>>

\* `await interceptor(value)`: a value is the list of the user interceptors
\* it went through; the logging interceptor of the constructor returns its
\* argument, a user interceptor a value derived from its argument
Output(i, value) == IF i = "log" THEN value ELSE Append(value, i)

\* Variant: requests of every method go through the rate limiting block
isGETAlways(rq) == TRUE

\* mergedOptions.method === 'GET'
isGET(rq) == rq.options.method = "GET"

\* request() after `await applyRequestInterceptors`: token registration,
\* rate limiting for GET, then the transport call
Proceed(r, rq0, h) ==
  LET tok == rq0.options.cancelToken
      tk == [cbs |-> callbacks, inv |-> invoked, ran |-> FALSE]
      tk2 == IF tok THEN register(tk, <<r, rq0.attempt, "fetch">>) ELSE tk
      rq == [rq0 EXCEPT !.abort = IF ~tok THEN "none"
                                  ELSE IF tk2.ran THEN "aborted"
                                  ELSE "armed"]
  IN /\ callbacks' = tk2.cbs
     /\ invoked' = tk2.inv
     /\ IF isGET(rq)
        THEN IF rateLimitQueue[domain(rq)] # NoPromise
             THEN /\ Set(r, [rq |-> [rq EXCEPT !.pc = "rateLimit",
                                              !.waitOn = rateLimitQueue[domain(rq)]],
                             h |-> [h EXCEPT !.gates = @ \cup {domain(rq)}]])
                  /\ UNCHANGED <<rateLimitQueue, timers>>
             ELSE InstallAndFetch(r, rq, h)
        ELSE /\ Set(r, Fetch(r, rq, h))
             /\ UNCHANGED <<rateLimitQueue, timers>>

\* The awaited request interceptor returned: the next one is called, or
\* the chain returns and request() goes on
RequestInterceptorReturns(r) ==
  /\ req[r].pc = "reqChain"
  /\ IF req[r].idx < Len(req[r].arr)
     THEN /\ req' = [req EXCEPT ![r].idx = @ + 1,
                               ![r].interceptedRequest = Output(req[r].arr[req[r].idx], @)]
          /\ UNCHANGED <<hist, callbacks, invoked, rateLimitQueue, timers>>
     ELSE Proceed(r, [req[r] EXCEPT !.interceptedRequest =
                        IF req[r].idx = 0 THEN @
                        ELSE Output(req[r].arr[req[r].idx], @)], hist[r])
  /\ UNCHANGED <<client, reason, allResult>>

\* The awaited request interceptor threw (or its promise rejected)
RequestInterceptorThrows(r, name) ==
  /\ req[r].pc = "reqChain"
  /\ req[r].idx >= 1
  /\ Set(r, Catch(req[r], hist[r], InterceptorError(name), "requestInterceptor"))
  /\ UNCHANGED <<client, invoked, rateLimitQueue, timers, reason, callbacks, allResult>>

\* `await this.rateLimitQueue.get(domain)` resumes
RateLimitResume(r) ==
  /\ req[r].pc = "rateLimit"
  /\ req[r].waitOn = Released
  /\ InstallAndFetch(r, [req[r] EXCEPT !.waitOn = NoPromise], hist[r])
  /\ UNCHANGED <<client, invoked, reason, callbacks, allResult>>

\* Variant: the timer resolves the promise and leaves the entry in the map
SpacingTimerKeeps(p) ==
  /\ p \in timers
  /\ timers' = timers \ {p}
  /\ req' = [r \in Reqs |->
               IF req[r].pc = "rateLimit" /\ req[r].waitOn = p
               THEN [req[r] EXCEPT !.waitOn = Released]
               ELSE req[r]]
  /\ UNCHANGED <<client, invoked, reason, callbacks, allResult, rateLimitQueue, hist>>

\* The setTimeout(..., 100) callback of the request that installed promise p
SpacingTimer(p) ==
  /\ p \in timers
  /\ timers' = timers \ {p}
  /\ rateLimitQueue' = [rateLimitQueue EXCEPT ![domain(req[p[1]])] = NoPromise]
  /\ req' = [r \in Reqs |->
               IF req[r].pc = "rateLimit" /\ req[r].waitOn = p
               THEN [req[r] EXCEPT !.waitOn = Released]
               ELSE req[r]]
  /\ hist' = [hist EXCEPT ![p[1]] =
                 [@ EXCEPT !.gates = @ \cup {domain(req[p[1]])},
                           !.open = IF p[2] = req[p[1]].attempt THEN FALSE ELSE @]]
  /\ UNCHANGED <<client, invoked, reason, callbacks, allResult>>

\* ------------------------------------------------------------ fetch transport
\* The cancel token's signal is the one fetch listens to
SignalAttached(rq) ==
  mergeOptions(rq.options).timeout = 0 /\ rq.abort # "none"

FetchPending(r) ==
  /\ req[r].pc = "fetch"
  /\ req[r].sent
  /\ ~(SignalAttached(req[r]) /\ req[r].abort = "aborted")

\* Variant: the response interceptors are applied to accepted statuses only
applyResponseInterceptorsValid(rq, response) ==
  IF response.status >= 200 /\ response.status < 300
  THEN [rq EXCEPT !.pc = "respChain", !.response = response,
                  !.arr = responseInterceptors, !.snapshot = responseInterceptors,
                  !.live = TRUE, !.interceptedResponse = <<>>, !.gone = removed,
                  !.idx = IF responseInterceptors = <<>> THEN 0 ELSE 1]
  ELSE [rq EXCEPT !.pc = "respChain", !.response = response,
                  !.arr = <<>>, !.snapshot = <<>>,
                  !.live = TRUE, !.interceptedResponse = <<>>, !.gone = removed,
                  !.idx = 0]

\* applyResponseInterceptors up to its first await
applyResponseInterceptors(rq, response) ==
  [rq EXCEPT !.pc = "respChain", !.response = response,
             !.arr = responseInterceptors, !.snapshot = responseInterceptors,
             !.live = TRUE, !.interceptedResponse = <<>>, !.gone = removed,
             !.idx = IF responseInterceptors = <<>> THEN 0 ELSE 1]

\* fetch resolves with a response
FetchResponds(r, response) ==
  /\ FetchPending(r)
  /\ req' = [req EXCEPT ![r] = applyResponseInterceptors(req[r], response)]
  /\ UNCHANGED <<client, invoked, rateLimitQueue, timers, reason, callbacks, hist, allResult>>

\* fetch rejects: no response obtained
FetchFails(r) ==
  /\ FetchPending(r)
  /\ Set(r, Catch(req[r], hist[r], NetworkError, "network"))
  /\ UNCHANGED <<client, invoked, rateLimitQueue, timers, reason, callbacks, allResult>>

\* The timeout timer aborts the fetch; the AbortError becomes a plain Error
FetchTimesOut(r) ==
  /\ FetchPending(r)
  /\ mergeOptions(req[r].options).timeout # 0
  /\ Set(r, Catch(req[r], hist[r], TimeoutError, "timeout"))
  /\ UNCHANGED <<client, invoked, rateLimitQueue, timers, reason, callbacks, allResult>>

\* fetch rejects because the cancel token's signal is aborted
FetchAborts(r) ==
  /\ req[r].pc = "fetch"
  /\ SignalAttached(req[r])
  /\ req[r].abort = "aborted"
  /\ Set(r, Catch(req[r], hist[r], AbortError, "abort"))
  /\ UNCHANGED <<client, invoked, rateLimitQueue, timers, reason, callbacks, allResult>>

\* ----------------------------------------------- validation and decoding
validateStatus(status) == status >= 200 /\ status < 300

\* JSON.parse: the value, or "throws"
JSONparse(text) ==
  IF text = "{json}" THEN "obj" ELSE "throws"

\* The errorData of a rejected status (request(), lines 520-534)
ErrorData(response) ==
  IF response.ctype = "application/json"
  THEN IF JSONparse(response.body) = "throws" THEN "statusText"
       ELSE JSONparse(response.body)
  ELSE response.body

\* request() after `await applyResponseInterceptors`
ValidateDecode(rq, h) ==
  LET response == rq.response
      responseType == mergeOptions(rq.options).responseType
      ok(data) == [rq |-> [Finish(rq, "done") EXCEPT !.err = NoError, !.data = data],
                   h |-> [h EXCEPT !.body = response.body]]
  IN IF ~validateStatus(response.status)
     THEN Catch(rq, h, StatusError(response.status, ErrorData(response)), "status")
     ELSE IF responseType = "text" THEN ok(response.body)
     ELSE IF response.body = "" THEN ok(Null)
     ELSE IF JSONparse(response.body) = "throws"
     THEN Catch(rq, [h EXCEPT !.body = response.body],
                ProcessError(response.status, ParseMessage), "decode")
     ELSE ok(JSONparse(response.body))

\* The awaited response interceptor returned
ResponseInterceptorReturns(r) ==
  /\ req[r].pc = "respChain"
  /\ IF req[r].idx < Len(req[r].arr)
     THEN /\ req' = [req EXCEPT ![r].idx = @ + 1,
                               ![r].interceptedResponse = Output(req[r].arr[req[r].idx], @)]
          /\ UNCHANGED hist
     ELSE LET out == IF req[r].idx = 0 THEN req[r].interceptedResponse
                     ELSE Output(req[r].arr[req[r].idx], req[r].interceptedResponse)
          IN Set(r, ValidateDecode(req[r], [hist[r] EXCEPT !.validated = out]))
  /\ UNCHANGED <<client, invoked, rateLimitQueue, timers, reason, callbacks, allResult>>

\* The awaited response interceptor threw
ResponseInterceptorThrows(r, name) ==
  /\ req[r].pc = "respChain"
  /\ req[r].idx >= 1
  /\ Set(r, Catch(req[r], hist[r], InterceptorError(name), "responseInterceptor"))
  /\ UNCHANGED <<client, invoked, rateLimitQueue, timers, reason, callbacks, allResult>>

\* ------------------------------------------------------------ error chain
\* What the interceptor hands back: the logging interceptor of the
\* constructor returns its argument, a user interceptor a derived error
Intercepted(i, error) ==
  [error EXCEPT !.via = Output(i, @)]

\* The awaited error interceptor returned
ErrorInterceptorReturns(r) ==
  /\ req[r].pc = "errChain"
  /\ LET e == Intercepted(req[r].arr[req[r].idx], req[r].error)
     IN IF req[r].idx < Len(req[r].arr)
        THEN req' = [req EXCEPT ![r].idx = @ + 1, ![r].error = e]
        ELSE req' = [req EXCEPT ![r] = [Finish(@, "done") EXCEPT !.err = e,
                                                      !.data = Null]]
  /\ UNCHANGED <<client, invoked, rateLimitQueue, timers, reason, callbacks, hist, allResult>>

\* The awaited error interceptor threw inside the catch block: nothing
\* catches it and the promise of request() rejects
ErrorInterceptorThrows(r) ==
  /\ req[r].pc = "errChain"
  /\ req[r].arr[req[r].idx] # "log"
  /\ req' = [req EXCEPT ![r] = [Finish(@, "rejected") EXCEPT !.error = InterceptorError("Error")]]
  /\ UNCHANGED <<client, invoked, rateLimitQueue, timers, reason, callbacks, hist, allResult>>

\* -------------------------------------------------------------- XHR transport
\* Variant: the payload of the error is handed over in the data slot too
ResolveKeepsData(rq, h, error, data, kind) ==
  [rq |-> [Finish(rq, "done") EXCEPT !.err = error,
                            !.data = IF error = NoError THEN data ELSE error.data],
   h |-> IF error = NoError THEN h
         ELSE Record(h, Failure(kind, error, rq, h))]

\* The promise of requestWithXHR resolves with [error, data]
Resolve(rq, h, error, data, kind) ==
  [rq |-> [Finish(rq, "done") EXCEPT !.err = error, !.data = data],
   h |-> IF error = NoError THEN h
         ELSE Record(h, Failure(kind, error, rq, h))]

\* xhr.onload
XhrOnload(rq, h, response) ==
  LET responseType == mergeOptions(rq.options).responseType
      h1 == [h EXCEPT !.body = response.body]
      validated(data) ==
        IF ~validateStatus(response.status)
        THEN Resolve(rq, h1, StatusError(response.status, data), Null, "status")
        ELSE Resolve(rq, h1, NoError, data, "none")
  IN IF responseType = "text" THEN validated(response.body)
     ELSE IF response.body = "" THEN validated(Null)
     ELSE IF JSONparse(response.body) = "throws"
     THEN Resolve(rq, h1, MkError("SyntaxError", 0, <<"Unexpected token">>, Undefined),
                  Null, "decode")
     ELSE validated(JSONparse(response.body))

XhrLoads(r, response) ==
  /\ req[r].pc = "xhr"
  /\ Set(r, XhrOnload(req[r], hist[r], response))
  /\ UNCHANGED <<client, invoked, rateLimitQueue, timers, reason, callbacks, allResult>>

\* xhr.onerror
XhrErrors(r) ==
  /\ req[r].pc = "xhr"
  /\ Set(r, Resolve(req[r], hist[r],
                    MkError("ApiError", 0, <<"Network error occurred">>, Undefined),
                    Null, "network"))
  /\ UNCHANGED <<client, invoked, rateLimitQueue, timers, reason, callbacks, allResult>>

\* xhr.ontimeout
XhrTimesOut(r) ==
  /\ req[r].pc = "xhr"
  /\ mergeOptions(req[r].options).timeout # 0
  /\ Set(r, Resolve(req[r], hist[r],
                    MkError("ApiError", 0, <<"Request timed out after ", "ms">>, Undefined),
                    Null, "timeout"))
  /\ UNCHANGED <<client, invoked, rateLimitQueue, timers, reason, callbacks, allResult>>

\* ------------------------------------------------------------- CancelToken
\* A transport call of r is under way
InFlight(rq) == (rq.pc = "fetch" /\ rq.sent) \/ rq.pc = "xhr"

Registered(r, kind) ==
  \E i \in 1..Len(callbacks) : callbacks[i] = <<r, req[r].attempt, kind>>

\* Variant: the list of callbacks is kept after they were run
cancelKeepsList(rsn) ==
  LET stored == IF rsn = "" THEN "Operation canceled by user" ELSE rsn
  IN /\ reason' = stored
     /\ invoked' = Logged(invoked, [i \in 1..Len(callbacks) |->
                                      callbacks[i] \o <<stored, "cancel">>])
     /\ callbacks' = callbacks
     /\ UNCHANGED <<req, hist>>

\* CancelToken.cancel(reason): the reason is stored, every registered
\* callback runs, the list is emptied.  A callback of the fetch path aborts
\* the AbortController of its attempt (recorded while that attempt can still
\* read the signal); a callback of the XHR path aborts the xhr and resolves
\* the promise.
cancel(rsn) ==
  LET stored == IF rsn = "" THEN "Operation canceled by user" ELSE rsn
      after(r) ==
        LET rq == req[r]
        IN IF Registered(r, "xhr") /\ rq.pc = "xhr"
           THEN [Finish(rq, "done") EXCEPT !.data = Null,
                           !.err = MkError("ApiError", 0, <<"Request canceled">>, stored)]
           ELSE IF Registered(r, "fetch") /\ rq.pc \in {"rateLimit", "fetch"}
           THEN [rq EXCEPT !.abort = "aborted"]
           ELSE rq
      seen(r) ==
        LET rq == req[r]
            hit == rq.options.cancelToken /\ InFlight(rq)
            stopped == \/ Registered(r, "xhr") /\ rq.pc = "xhr"
                       \/ Registered(r, "fetch") /\ rq.pc = "fetch" /\ rq.sent
                          /\ SignalAttached(rq)
        IN [hist[r] EXCEPT !.cancelledInFlight = @ \/ hit,
                           !.aborted = @ \/ stopped]
  IN /\ reason' = stored
     /\ invoked' = Logged(invoked, [i \in 1..Len(callbacks) |->
                                      callbacks[i] \o <<stored, "cancel">>])
     /\ callbacks' = <<>>
     /\ req' = [r \in Reqs |-> after(r)]
     /\ hist' = [r \in Reqs |-> seen(r)]

\* The caller cancels the token it handed to its requests
Cancel(rsn) ==
  /\ \E r \in active : req[r].options.cancelToken
  /\ cancel(rsn)
  /\ UNCHANGED <<client, rateLimitQueue, timers, allResult>>

\* --------------------------------------------------------------------- all()
Settled(r) == req[r].pc \in {"done", "rejected"}

\* The tuple of one invocation as all() sees it: a rejection is turned into
\* [error, null] by the .catch of line 387
Tuple(r) ==
  IF req[r].pc = "rejected" THEN [err |-> req[r].error, data |-> Null]
  ELSE [err |-> req[r].err, data |-> req[r].data]

\* Variant: the results are collected last invocation first
RECURSIVE SortedSeqDescending(_)
SortedSeqDescending(S) ==
  IF S = {} THEN <<>>
  ELSE LET m == CHOOSE x \in S : \A y \in S : x >= y
       IN <<m>> \o SortedSeqDescending(S \ {m})

RECURSIVE SortedSeq(_)
SortedSeq(S) ==
  IF S = {} THEN <<>>
  ELSE LET m == CHOOSE x \in S : \A y \in S : x <= y
       IN <<m>> \o SortedSeq(S \ {m})

RECURSIVE combinedMessage(_, _)
combinedMessage(errors, index) ==
  IF index > Len(errors) THEN <<>>
  ELSE <<"Request ", ToString(index - 1), ": ">> \o errors[index].msg
       \o combinedMessage(errors, index + 1)

\* Variant: any failure is reported as an aggregate
allAggregates(results) ==
  LET errors == SelectSeq([i \in 1..Len(results) |-> results[i].err],
                          LAMBDA e : e # NoError)
  IN IF Len(errors) > 0
     THEN [err |-> MkError("ApiError", 0,
                     <<"Multiple requests failed: ">> \o combinedMessage(errors, 1),
                     Undefined),
           data |-> <<>>, hasData |-> FALSE, returned |-> TRUE]
     ELSE [err |-> NoError, data |-> [i \in 1..Len(results) |-> results[i].data],
           hasData |-> TRUE, returned |-> TRUE]

all(results) ==
  LET errors == SelectSeq([i \in 1..Len(results) |-> results[i].err],
                          LAMBDA e : e # NoError)
  IN IF Len(errors) > 1
     THEN [err |-> MkError("ApiError", 0,
                     <<"Multiple requests failed: ">> \o combinedMessage(errors, 1),
                     Undefined),
           data |-> <<>>, hasData |-> FALSE, returned |-> TRUE]
     ELSE IF Len(errors) = 1
     THEN [err |-> errors[1], data |-> <<>>, hasData |-> FALSE, returned |-> TRUE]
     ELSE [err |-> NoError, data |-> [i \in 1..Len(results) |-> results[i].data],
           hasData |-> TRUE, returned |-> TRUE]

\* Variant: the invocation's promise is handed to Promise.all as it is
ElementUncaught(r) ==
  IF req[r].pc = "done" THEN [state |-> "fulfilled", value |-> Tuple(r)]
  ELSE IF req[r].pc = "rejected"
  THEN [state |-> "rejected", value |-> [err |-> req[r].error, data |-> Null]]
  ELSE [state |-> "pending", value |-> [err |-> NoError, data |-> Null]]

\* The promise `request().catch(...)` that all() hands to Promise.all
Element(r) ==
  IF Settled(r) THEN [state |-> "fulfilled", value |-> Tuple(r)]
  ELSE [state |-> "pending", value |-> [err |-> NoError, data |-> Null]]

\* Promise.all: rejected as soon as one element is, fulfilled once all are
PromiseAll(elements) ==
  IF \E i \in 1..Len(elements) : elements[i].state = "rejected"
  THEN [state |-> "rejected",
        value |-> LET i == CHOOSE j \in 1..Len(elements) : elements[j].state = "rejected"
                  IN <<elements[i].value>>]
  ELSE IF \A i \in 1..Len(elements) : elements[i].state = "fulfilled"
  THEN [state |-> "fulfilled", value |-> [i \in 1..Len(elements) |-> elements[i].value]]
  ELSE [state |-> "pending", value |-> <<>>]

\* requests.map(request => request()...): every invocation is called, in
\* the order of the list
RECURSIVE StartEach(_, _, _)
StartEach(order, i, st) ==
  IF i > Len(order) THEN st
  ELSE LET r == order[i]
           res == Entered(r, st.req[r], st.hist, st.tk)
       IN StartEach(order, i + 1,
                    [req |-> [st.req EXCEPT ![r] = res.rq],
                     hist |-> res.hh, tk |-> res.tk])

\* all(requests) is called with one public operation per issued request
AllStarts ==
  /\ ~allResult.returned
  /\ \A r \in active : req[r].pc = "idle"
  /\ LET st == StartEach(SortedSeq(active), 1,
                         [req |-> req, hist |-> hist,
                          tk |-> [cbs |-> callbacks, inv |-> invoked]])
     IN /\ req' = st.req
        /\ hist' = st.hist
        /\ callbacks' = st.tk.cbs
        /\ invoked' = st.tk.inv
  /\ UNCHANGED <<client, rateLimitQueue, timers, reason, allResult>>

\* `await Promise.all(...)` resumes and all() returns: with the results, or
\* through its catch block with the rejection
AllReturns ==
  /\ ~allResult.returned
  /\ LET order == SortedSeq(active)
         awaited == PromiseAll([i \in 1..Len(order) |-> Element(order[i])])
     IN /\ awaited.state # "pending"
        /\ allResult' = IF awaited.state = "fulfilled" THEN all(awaited.value)
                        ELSE [err |-> awaited.value[1].err, data |-> <<>>,
                              hasData |-> FALSE, returned |-> TRUE]
  /\ UNCHANGED <<client, invoked, rateLimitQueue, timers, reason, callbacks, req, hist>>

\* ------------------------------------------------- interceptor registrations
\* Variant: the removal function leaves the list as it is
filterKeeps(chain, interceptor) == chain

\* Array.prototype.filter(i => i !== interceptor)
filter(chain, interceptor) == SelectSeq(chain, LAMBDA i : i # interceptor)

\* The field of a chain is assigned a new array: the runs under way keep
\* iterating the array they started on
Detached(pc) ==
  [r \in Reqs |-> IF req[r].pc \in pc THEN [req[r] EXCEPT !.live = FALSE] ELSE req[r]]

\* The array of a chain is pushed to: a run under way on that array, not yet
\* past its last element, sees the new element
Pushed(pc, i) ==
  [r \in Reqs |-> IF req[r].pc = pc /\ req[r].live /\ req[r].idx >= 1
                  THEN [req[r] EXCEPT !.arr = Append(@, i)] ELSE req[r]]

\* addRequestInterceptor(i)
AddRequestInterceptor(i) ==
  /\ Len(requestInterceptors) < MaxChainLen
  /\ requestInterceptors' = Append(requestInterceptors, i)
  /\ registered' = registered \cup {<<"request", i>>}
  /\ req' = Pushed("reqChain", i)
  /\ UNCHANGED <<defaultOptions, responseInterceptors, errorInterceptors, active,
                 rateLimitQueue, timers, reason, callbacks, hist, allResult,
                 removed, invoked>>

\* addResponseInterceptor(i)
AddResponseInterceptor(i) ==
  /\ Len(responseInterceptors) < MaxChainLen
  /\ responseInterceptors' = Append(responseInterceptors, i)
  /\ registered' = registered \cup {<<"response", i>>}
  /\ req' = Pushed("respChain", i)
  /\ UNCHANGED <<defaultOptions, requestInterceptors, errorInterceptors, active,
                 rateLimitQueue, timers, reason, callbacks, hist, allResult,
                 removed, invoked>>

\* addErrorInterceptor(i)
AddErrorInterceptor(i) ==
  /\ Len(errorInterceptors) < MaxChainLen
  /\ errorInterceptors' = Append(errorInterceptors, i)
  /\ registered' = registered \cup {<<"error", i>>}
  /\ req' = Pushed("errChain", i)
  /\ UNCHANGED <<defaultOptions, requestInterceptors, responseInterceptors, active,
                 rateLimitQueue, timers, reason, callbacks, hist, allResult,
                 removed, invoked>>

\* The function returned by addRequestInterceptor is called
RemoveRequestInterceptor(i) ==
  /\ <<"request", i>> \in registered
  /\ requestInterceptors' = filter(requestInterceptors, i)
  /\ removed' = removed \cup {<<"request", i>>}
  /\ req' = Detached({"reqChain"})
  /\ UNCHANGED <<defaultOptions, responseInterceptors, errorInterceptors, active,
                 rateLimitQueue, timers, reason, callbacks, hist, allResult,
                 invoked, registered>>

\* The function returned by addResponseInterceptor is called
RemoveResponseInterceptor(i) ==
  /\ <<"response", i>> \in registered
  /\ responseInterceptors' = filter(responseInterceptors, i)
  /\ removed' = removed \cup {<<"response", i>>}
  /\ req' = Detached({"respChain"})
  /\ UNCHANGED <<defaultOptions, requestInterceptors, errorInterceptors, active,
                 rateLimitQueue, timers, reason, callbacks, hist, allResult,
                 invoked, registered>>

\* The function returned by addErrorInterceptor is called
RemoveErrorInterceptor(i) ==
  /\ <<"error", i>> \in registered
  /\ errorInterceptors' = filter(errorInterceptors, i)
  /\ removed' = removed \cup {<<"error", i>>}
  /\ req' = Detached({"errChain"})
  /\ UNCHANGED <<defaultOptions, requestInterceptors, responseInterceptors, active,
                 rateLimitQueue, timers, reason, callbacks, hist, allResult,
                 invoked, registered>>

\* clearInterceptors()
ClearInterceptors ==
  /\ requestInterceptors' = <<>>
  /\ responseInterceptors' = <<>>
  /\ errorInterceptors' = <<>>
  /\ req' = Detached({"reqChain", "respChain", "errChain"})
  /\ UNCHANGED <<defaultOptions, active, rateLimitQueue, timers, reason, callbacks,
                 hist, allResult, removed, invoked, registered>>

\* ------------------------------------------------------------ specification
Next ==
  \/ \E r \in Reqs : Call(r)
  \/ \E r \in Reqs : BackoffTimer(r)
  \/ \E r \in Reqs : RequestInterceptorReturns(r)
  \/ \E r \in Reqs, n \in {"Error", "TypeError"} : RequestInterceptorThrows(r, n)
  \/ \E r \in Reqs : RateLimitResume(r)
  \/ \E p \in timers : SpacingTimer(p)
  \/ \E r \in Reqs, resp \in Responses : FetchResponds(r, resp)
  \/ \E r \in Reqs : FetchFails(r)
  \/ \E r \in Reqs : FetchTimesOut(r)
  \/ \E r \in Reqs : FetchAborts(r)
  \/ \E r \in Reqs : ResponseInterceptorReturns(r)
  \/ \E r \in Reqs, n \in {"Error", "TypeError"} : ResponseInterceptorThrows(r, n)
  \/ \E r \in Reqs : ErrorInterceptorReturns(r)
  \/ \E r \in Reqs : ErrorInterceptorThrows(r)
  \/ \E r \in Reqs, resp \in Responses : XhrLoads(r, resp)
  \/ \E r \in Reqs : XhrErrors(r)
  \/ \E r \in Reqs : XhrTimesOut(r)
  \/ \E rsn \in Reasons : Cancel(rsn)
  \/ AllReturns

\* One logical request with any options on a client with any defaults
Init ==
  /\ InitClient
  /\ invoked = Untraced
  /\ active = {1}
  /\ \E o \in OptionSpace :
       /\ o.host = "a.example"
       /\ req = [r \in Reqs |-> IF r = 1 THEN InitFrame(o)
                                ELSE InitFrame(CHOOSE d \in OptionSpace : TRUE)]

Spec == Init /\ [][Next]_vars

\* The frame of a request the caller does not issue
Unissued == InitFrame(CHOOSE d \in OptionSpace : TRUE)

\* The client of the remaining specifications: the constructor's defaults
PlainClient ==
  /\ InitClient
  /\ invoked = Untraced
  /\ defaultOptions.retries = 0
  /\ defaultOptions.retryStatusCodes = DefaultRetryStatusCodes

OkResponse == [status |-> 200, body |-> "{json}", ctype |-> "application/json"]

\* --- interceptor removal: one request, interceptors removed at any moment
InitChains ==
  /\ InitClient
  /\ invoked = Untraced
  /\ active = {1}
  /\ \E o \in OptionSpace :
       /\ o.method = "POST" /\ o.host = "a.example" /\ ~o.useXHR
       /\ ~o.cancelToken /\ o.responseType = "json" /\ o.given = {"retries"}
       /\ req = [r \in Reqs |-> IF r = 1 THEN InitFrame(o) ELSE Unissued]

NextChains ==
  \/ \E r \in Reqs : Call(r)
  \/ \E r \in Reqs : BackoffTimer(r)
  \/ \E r \in Reqs : RequestInterceptorReturns(r)
  \/ \E r \in Reqs, resp \in Responses : FetchResponds(r, resp)
  \/ \E r \in Reqs : FetchFails(r)
  \/ \E r \in Reqs : ResponseInterceptorReturns(r)
  \/ \E r \in Reqs : ErrorInterceptorReturns(r)
  \/ \E i \in {"q"} : RemoveRequestInterceptor(i)
  \/ \E i \in {"p"} : RemoveResponseInterceptor(i)
  \/ \E i \in {"e"} : RemoveErrorInterceptor(i)

SpecChains == InitChains /\ [][NextChains]_vars

\* --- host throttle: two or three GET requests without retries, on either
\* transport path, to either host, called in any order at any moment
ThrottleOptions ==
  { o \in OptionSpace : /\ o.method = "GET" /\ o.given = {} /\ ~o.cancelToken
                        /\ o.responseType = "json" }

InitThrottle ==
  /\ PlainClient
  /\ active \in {{1, 2}, {1, 2, 3}}
  /\ \E o \in [Reqs -> ThrottleOptions] :
       req = [r \in Reqs |-> IF r \in active THEN InitFrame(o[r]) ELSE Unissued]

NextThrottle ==
  \/ \E r \in Reqs : Call(r)
  \/ \E r \in Reqs : RequestInterceptorReturns(r)
  \/ \E r \in Reqs : RateLimitResume(r)
  \/ \E p \in timers : SpacingTimer(p)
  \/ \E r \in Reqs : FetchResponds(r, OkResponse)
  \/ \E r \in Reqs : ResponseInterceptorReturns(r)
  \/ \E r \in Reqs : XhrLoads(r, OkResponse)

SpecThrottle == InitThrottle /\ [][NextThrottle]_vars

\* --- all(): two or three POST requests handed to all(), each of which may
\* succeed, fail or reject
AllOptions ==
  { o \in OptionSpace : /\ o.method = "POST" /\ o.host = "a.example" /\ ~o.useXHR
                        /\ o.given = {} /\ ~o.cancelToken
                        /\ o.responseType = "text" }

AllResponses ==
  { resp \in Responses : resp.status \in {200, 404} /\ resp.ctype = "application/json"
                         /\ resp.body # "<bad>" }

InitAll ==
  /\ PlainClient
  /\ active \in {{1, 2}, {1, 2, 3}}
  /\ \E o \in AllOptions :
       req = [r \in Reqs |-> IF r \in active THEN InitFrame(o) ELSE Unissued]

NextAll ==
  \/ AllStarts
  \/ \E r \in Reqs : RequestInterceptorReturns(r)
  \/ \E r \in Reqs, resp \in AllResponses : FetchResponds(r, resp)
  \/ \E r \in Reqs : FetchFails(r)
  \/ \E r \in Reqs : ResponseInterceptorReturns(r)
  \/ \E r \in Reqs : ErrorInterceptorReturns(r)
  \/ \E r \in Reqs : ErrorInterceptorThrows(r)
  \/ AllReturns

SpecAll == InitAll /\ [][NextAll]_vars

\* --- cancel token: two POST requests without retries that hold the token,
\* on either transport path; the callbacks run are logged
TokenOptions ==
  { o \in OptionSpace : /\ o.method = "POST" /\ o.host = "a.example"
                        /\ o.cancelToken /\ o.responseType = "json"
                        /\ "retries" \in o.given /\ o.retries = 0 }

InitToken ==
  /\ InitClient
  /\ defaultOptions.retries = 0
  /\ defaultOptions.retryStatusCodes = DefaultRetryStatusCodes
  /\ invoked = <<>>
  /\ active = {1, 2}
  /\ \E o \in [Reqs -> TokenOptions] :
       req = [r \in Reqs |-> IF r \in active THEN InitFrame(o[r]) ELSE Unissued]

NextToken ==
  \/ \E r \in Reqs : Call(r)
  \/ \E r \in Reqs : RequestInterceptorReturns(r)
  \/ \E r \in Reqs : FetchResponds(r, OkResponse)
  \/ \E r \in Reqs : FetchFails(r)
  \/ \E r \in Reqs : FetchAborts(r)
  \/ \E r \in Reqs : ResponseInterceptorReturns(r)
  \/ \E r \in Reqs : ErrorInterceptorReturns(r)
  \/ \E r \in Reqs : XhrLoads(r, OkResponse)
  \/ \E r \in Reqs : XhrErrors(r)
  \/ \E rsn \in Reasons : Cancel(rsn)

SpecToken == InitToken /\ [][NextToken]_vars

\* --- interceptor registry: one POST request without retries on the fetch
\* path; interceptors are added, the added ones removed, and all of them
\* cleared at any moment
InitRegistry ==
  /\ PlainClient
  /\ active = {1}
  /\ \E o \in OptionSpace :
       /\ o.method = "POST" /\ o.host = "a.example" /\ ~o.useXHR
       /\ ~o.cancelToken /\ o.responseType = "json" /\ o.given = {}
       /\ req = [r \in Reqs |-> IF r = 1 THEN InitFrame(o) ELSE Unissued]

NextRegistry ==
  \/ \E r \in Reqs : Call(r)
  \/ \E r \in Reqs : RequestInterceptorReturns(r)
  \/ \E r \in Reqs : FetchResponds(r, OkResponse)
  \/ \E r \in Reqs : FetchFails(r)
  \/ \E r \in Reqs : ResponseInterceptorReturns(r)
  \/ \E r \in Reqs : ErrorInterceptorReturns(r)
  \/ \E i \in Functions : AddRequestInterceptor(i)
  \/ \E i \in Functions : AddResponseInterceptor(i)
  \/ \E i \in Functions : AddErrorInterceptor(i)
  \/ \E i \in Functions : RemoveRequestInterceptor(i)
  \/ \E i \in Functions : RemoveResponseInterceptor(i)
  \/ \E i \in Functions : RemoveErrorInterceptor(i)
  \/ ClearInterceptors

SpecRegistry == InitRegistry /\ [][NextRegistry]_vars

\* --- methods: two requests to one host without retries, of either method
\* and on either transport path, called in any order at any moment
MethodOptions ==
  { o \in OptionSpace : /\ o.host = "a.example" /\ o.given = {} /\ ~o.cancelToken
                        /\ o.responseType = "json" }

InitMethods ==
  /\ PlainClient
  /\ active = {1, 2}
  /\ \E o \in [Reqs -> MethodOptions] :
       req = [r \in Reqs |-> IF r \in active THEN InitFrame(o[r]) ELSE Unissued]

NextMethods ==
  \/ \E r \in Reqs : Call(r)
  \/ \E r \in Reqs : RequestInterceptorReturns(r)
  \/ \E r \in Reqs : RateLimitResume(r)
  \/ \E p \in timers : SpacingTimer(p)
  \/ \E r \in Reqs : FetchResponds(r, OkResponse)
  \/ \E r \in Reqs : ResponseInterceptorReturns(r)
  \/ \E r \in Reqs : XhrLoads(r, OkResponse)

SpecMethods == InitMethods /\ [][NextMethods]_vars

\* --- termination: two GET requests to one host with at most one retry, on
\* either transport path; every transport call and every interceptor
\* settles (it returns or it throws) and every timer fires
LiveOptions ==
  { o \in OptionSpace : /\ o.method = "GET" /\ o.host = "a.example"
                        /\ o.given = {"retries"} /\ o.retries <= 1
                        /\ ~o.cancelToken /\ o.responseType = "json" }

LiveResponses ==
  { resp \in Responses : resp.body = "{json}" /\ resp.status \in {200, 503} }

InitLive ==
  /\ PlainClient
  /\ active = {1, 2}
  /\ \E o \in [Reqs -> LiveOptions] :
       req = [r \in Reqs |-> IF r \in active THEN InitFrame(o[r]) ELSE Unissued]

\* The caller and the timers
Scheduled(r) ==
  \/ Call(r)
  \/ BackoffTimer(r)
  \/ RateLimitResume(r)

\* The transport call of r settles
TransportSettles(r) ==
  \/ \E resp \in LiveResponses : FetchResponds(r, resp)
  \/ FetchFails(r)
  \/ \E resp \in LiveResponses : XhrLoads(r, resp)
  \/ XhrErrors(r)

\* The interceptor r waits for settles
InterceptorSettles(r) ==
  \/ RequestInterceptorReturns(r)
  \/ RequestInterceptorThrows(r, "Error")
  \/ ResponseInterceptorReturns(r)
  \/ ResponseInterceptorThrows(r, "Error")
  \/ ErrorInterceptorReturns(r)
  \/ ErrorInterceptorThrows(r)

NextLive ==
  \/ \E r \in Reqs : Scheduled(r)
  \/ \E r \in Reqs : TransportSettles(r)
  \/ \E r \in Reqs : InterceptorSettles(r)
  \/ \E p \in timers : SpacingTimer(p)

Fairness ==
  /\ \A r \in Reqs : WF_vars(Scheduled(r))
  /\ \A r \in Reqs : WF_vars(TransportSettles(r))
  /\ \A r \in Reqs : WF_vars(InterceptorSettles(r))
  /\ \A p \in Reqs \X (1..2) : WF_vars(SpacingTimer(p))

SpecLive == InitLive /\ [][NextLive]_vars /\ Fairness

\* --- retries: one request with no retry budget or the largest one, set by
\* the call or by the client, with any method, transport path, timeout and
\* token
InitRetry ==
  /\ InitClient
  /\ invoked = Untraced
  /\ defaultOptions.retryStatusCodes = DefaultRetryStatusCodes
  /\ defaultOptions.retries \in {0, MaxRetries}
  /\ active = {1}
  /\ \E o \in OptionSpace :
       /\ o.host = "a.example" /\ o.responseType = "json"
       /\ ("retries" \in o.given => o.retries = MaxRetries)
       /\ req = [r \in Reqs |-> IF r = 1 THEN InitFrame(o) ELSE Unissued]

SpecRetry == InitRetry /\ [][Next]_vars

\* ================================================================== claims
Returned(r) == req[r].pc = "done"

\* request() has reached its catch block for the last time
Terminal(r) == req[r].pc \in {"errChain", "done", "rejected"} /\ hist[r].termErr # NoError

Codes(r) == mergeOptions(req[r].options).retryStatusCodes

C2_NeverRejects == \A r \in Reqs : req[r].pc # "rejected"

\* C3: a request issued with an already cancelled token never dispatches to
\* the transport and its terminal failure is the cancellation error, which
\* is what the caller gets in the error slot, for any retry budget and on
\* either transport path.
C3_PreCancelled ==
  \A r \in Reqs : hist[r].preCancelled =>
    /\ hist[r].dispatches = 0
    /\ req[r].pc \in {"backoff", "errChain", "done", "rejected"}
    /\ req[r].pc # "backoff" =>
         /\ hist[r].termErr.name = "ApiError"
         /\ hist[r].termErr.msg[1] = "Request canceled: "
         /\ isCancellationError(hist[r].termErr)
    /\ Returned(r) => /\ req[r].data = Null
                      /\ [req[r].err EXCEPT !.via = <<>>] = hist[r].termErr

C3_Witness ==
  \E r \in Reqs : /\ hist[r].preCancelled /\ Returned(r)
                  /\ hist[r].budget = MaxRetries /\ req[r].options.useXHR

\* C4 (as stated): when the token is cancelled while a request holding it
\* has a transport call in flight, that call is aborted and the request ends
\* with a cancellation failure, never with data and never with a timeout.
C4_CancelInFlight ==
  \A r \in Reqs : hist[r].cancelledInFlight =>
    /\ hist[r].aborted
    /\ Returned(r) => /\ req[r].data = Null
                      /\ isCancellationError(req[r].err)
                      /\ ~isTimeoutError(req[r].err)

\* C5: with retry budget N, N failed attempts that the retry controller
\* classifies retryable are each followed by a new attempt (a failure the
\* controller classifies retryable is terminal only as failure N+1), and when
\* attempt N+1 succeeds after N failures of the transport call the request
\* has made exactly N+1 dispatches and returns data.
C5_RetryCount ==
  \A r \in Reqs :
    /\ (Returned(r) /\ req[r].err = NoError /\ hist[r].nFails = hist[r].budget
        /\ hist[r].transportFails = hist[r].nFails)
         => hist[r].dispatches = hist[r].budget + 1
    /\ (Terminal(r) /\ shouldRetry(hist[r].termErr, Codes(r)))
         => hist[r].nFails = hist[r].budget + 1

C5_Witness ==
  \E r \in Reqs : /\ Returned(r) /\ req[r].err = NoError
                  /\ hist[r].budget = MaxRetries
                  /\ hist[r].transportFails = MaxRetries
                  /\ hist[r].dispatches = MaxRetries + 1

\* C6 (as stated): the wait before the i-th retry is retryDelay * 2^(i-1),
\* whether the budget comes from the client defaults or from the call
\* (stated for the retries that follow a failure of the transport call).
C6_Backoff ==
  \A r \in Reqs : hist[r].transportFails = hist[r].nFails =>
    \A i \in 1..Len(hist[r].waits) :
      hist[r].waits[i] = ScaledDelay(mergeOptions(req[r].options).retryDelay, i - 1)

\* C7: a rejected 4xx status outside retryStatusCodes is never retried: the
\* request is at its terminal failure and makes no further dispatch (exactly
\* one when it is the first attempt), for any retry budget.
C7_ClientErrorTerminal ==
  \A r \in Reqs :
    LET f == hist[r].lastFail
    IN (f.kind = "status" /\ f.status >= 400 /\ f.status < 500
        /\ f.status \notin Codes(r)) =>
         /\ ~f.retried
         /\ req[r].pc \in {"errChain", "done", "rejected"}
         /\ hist[r].dispatches = f.disp
         /\ f.attempt = 1 => hist[r].dispatches = 1

C7_Witness ==
  \E r \in Reqs : /\ hist[r].lastFail.kind = "status"
                  /\ hist[r].lastFail.status = 404
                  /\ 404 \notin Codes(r)
                  /\ hist[r].lastFail.left = MaxRetries
                  /\ Returned(r)

\* C8 (as stated): an attempt that fails because its timeout was exceeded
\* while retry budget remains is followed by a new attempt.
C8_TimeoutRetried ==
  \A r \in Reqs :
    (hist[r].lastFail.kind = "timeout" /\ hist[r].lastFail.left > 0)
      => hist[r].lastFail.retried

\* C9 (as stated): a cancellation failure is never retried, for any retry
\* budget and any reason text.
C9_CancelTerminal ==
  \A r \in Reqs :
    hist[r].lastFail.kind \in {"cancel", "abort"} => ~hist[r].lastFail.retried

\* C10: for one logical request the error interceptor chain runs at most
\* once, only at the terminal failure: never for an attempt that is retried
\* and never when the request returns data.
C10_ErrorChainOnce ==
  \A r \in Reqs :
    /\ hist[r].errRuns <= 1
    /\ hist[r].errRuns = 1 => /\ req[r].pc \in {"errChain", "done", "rejected"}
                              /\ ~hist[r].lastFail.retried
                              /\ req[r].err = NoError => req[r].pc # "done"
    /\ req[r].pc \in {"backoff", "reqChain", "rateLimit", "fetch", "respChain"}
         => hist[r].errRuns = 0

C10_Witness ==
  \E r \in Reqs : /\ Returned(r) /\ req[r].err # NoError
                  /\ hist[r].nFails = MaxRetries + 1
                  /\ hist[r].errRuns = 1

\* C11: once the removal function of a registration has been called, no run
\* of that chain that starts afterwards invokes the interceptor, also for a
\* request that was started before the removal.
C11_RemovedNeverInvoked ==
  \A r \in Reqs :
    LET rq == req[r]
    IN /\ (rq.pc = "reqChain" /\ rq.idx >= 1) => <<"request", rq.arr[rq.idx]>> \notin rq.gone
       /\ (rq.pc = "respChain" /\ rq.idx >= 1) => <<"response", rq.arr[rq.idx]>> \notin rq.gone
       /\ (rq.pc = "errChain" /\ rq.idx >= 1) => <<"error", rq.arr[rq.idx]>> \notin rq.gone

C11_Witness ==
  \E r \in Reqs : /\ req[r].pc = "errChain" /\ req[r].idx >= 1
                  /\ hist[r].dispatches = MaxRetries + 1
                  /\ Registrations \subseteq req[r].gone
                  /\ hist[r].known = {}

\* The issued requests are GET requests to one host
SameHostGets ==
  \A x, y \in active : /\ req[x].options.method = "GET"
                       /\ req[x].options.host = req[y].options.host

\* C12 (as stated): of exactly two GET requests to one host, each called
\* before the other has dispatched, neither is dispatched while the 100ms
\* window opened by the other's dispatch has not elapsed.
C12_TwoBackToBack ==
  (Cardinality(active) = 2 /\ SameHostGets /\ \A x \in active : hist[x].backToBack)
    => \A r \in active : hist[r].near = {}

\* C13 (as stated): for any number of GET requests to one host that pass the
\* rate limiting block, no request is dispatched while the spacing timer
\* installed by another one of them is still pending.
C13_OneAtATime ==
  \A r \in active :
    ~req[r].options.useXHR => \A x \in hist[r].near : req[x].options.useXHR

\* C14: a GET request never waits on a promise installed for another host
\* and never sets or deletes the rate limit entry of another host.
C14_PerHost ==
  /\ \A r \in Reqs :
       /\ hist[r].gates \subseteq {req[r].options.host}
       /\ (req[r].pc = "rateLimit" /\ req[r].waitOn # Released)
            => req[req[r].waitOn[1]].options.host = req[r].options.host
  /\ \A h \in Hosts : rateLimitQueue[h] # NoPromise
                          => req[rateLimitQueue[h][1]].options.host = h

C14_Witness ==
  \E x, y \in active :
    /\ req[x].options.host = "a.example" /\ req[y].options.host = "b.example"
    /\ rateLimitQueue["a.example"] = <<x, 1>> /\ rateLimitQueue["b.example"] = <<y, 1>>
    /\ {<<x, 1>>, <<y, 1>>} \subseteq timers
    /\ hist[x].dispatches = 1 /\ hist[y].dispatches = 1
    /\ \E z \in active : req[z].pc = "rateLimit" /\ req[z].waitOn = <<y, 1>>

\* The invocations of all() that ended with an error (the issued requests
\* are the input list, request i at position i)
Failing == { i \in active : Tuple(i).err # NoError }

\* msg holds "Request <index>: <m>"
Listed(msg, index, m) ==
  \E k \in 1..Len(msg) :
    /\ k + 2 + Len(m) <= Len(msg)
    /\ SubSeq(msg, k, k + 2 + Len(m)) = <<"Request ", ToString(index), ": ">> \o m

\* C15 (as stated): with two or more failing invocations all() returns no
\* data and one aggregate error whose message lists every failing
\* invocation by its index in the input list with that invocation's message.
C15_AggregateByInputIndex ==
  (allResult.returned /\ Cardinality(Failing) >= 2) =>
    /\ ~allResult.hasData
    /\ \A i \in Failing : Listed(allResult.err.msg, i - 1, Tuple(i).err.msg)

\* C16: with exactly one failing invocation all() returns that invocation's
\* own error and no data, wherever the invocation stands in the list.
C16_SingleError ==
  (allResult.returned /\ Cardinality(Failing) = 1) =>
    /\ ~allResult.hasData
    /\ \A i \in Failing : allResult.err = Tuple(i).err

C16_Witness ==
  /\ allResult.returned /\ active = {1, 2, 3} /\ Failing = {2}
  /\ req[1].data # Null /\ req[3].data # Null
  /\ allResult.err.status = 404

\* C17: with no failing invocation all() returns no error and a data array
\* as long as the input whose i-th element is the data of the i-th
\* invocation, in whatever order the invocations completed.
C17_OrderedData ==
  (allResult.returned /\ Failing = {}) =>
    /\ allResult.err = NoError /\ allResult.hasData
    /\ Len(allResult.data) = Cardinality(active)
    /\ \A i \in active : allResult.data[i] = req[i].data

C17_Witness ==
  /\ allResult.returned /\ allResult.hasData /\ active = {1, 2, 3}
  /\ req[3].rank < req[2].rank /\ req[2].rank < req[1].rank
  /\ req[1].data # req[3].data

C19_DecodeCarriesText ==
  \A r \in Reqs :
    (hist[r].lastFail.kind = "decode" /\ hist[r].termErr # NoError)
      => /\ hist[r].body = "<bad>"
         /\ hist[r].termErr.data = hist[r].body

\* C20 (as stated): once the token is cancelled a later cancel leaves the
\* stored reason as it is.
C20_CancelOnce == [][reason # NotCancelled => reason' = reason]_vars

\* The registrations <<request, attempt, path>> of the callbacks run so far
Notified == [i \in 1..Len(invoked) |-> SubSeq(invoked[i], 1, 3)]

\* C21: a callback registered on a cancelled token is run inside register
\* with the stored reason and is not put on the list, and once the token is
\* cancelled no request that registered a callback, before or after the
\* cancel, is left without its notification.
C21_RegisterAfterCancel ==
  /\ [](reason # NotCancelled =>
         /\ callbacks = <<>>
         /\ \A r \in Reqs : req[r].options.cancelToken =>
              /\ req[r].pc # "xhr"
              /\ req[r].pc \in {"rateLimit", "fetch"} =>
                   /\ req[r].abort = "aborted"
                   /\ \E i \in 1..Len(invoked) :
                        Notified[i] = <<r, req[r].attempt, "fetch">>)
  /\ [][\A i \in 1..Len(invoked') :
          (i > Len(invoked) /\ invoked'[i][5] = "register") => invoked'[i][4] = reason]_vars

C21_Witness ==
  \E r \in Reqs, i \in 1..Len(invoked) :
    /\ invoked[i] = <<r, 1, "fetch", "timeout", "register">>
    /\ req[r].pc = "fetch" /\ req[r].abort = "aborted"
    /\ \E j \in 1..Len(invoked) : j < i /\ invoked[j][5] = "cancel"

\* C22: at the first cancel every callback on the list is run once, in the
\* order of registration, with the reason of that cancel, and the list is
\* empty afterwards; no registration is ever run twice.
C22_EachOnceInOrder ==
  /\ [](\A i, j \in 1..Len(invoked) : Notified[i] = Notified[j] => i = j)
  /\ [](reason # NotCancelled => callbacks = <<>>)
  /\ [][(reason = NotCancelled /\ reason' # NotCancelled) =>
          /\ invoked = <<>>
          /\ invoked' = [i \in 1..Len(callbacks) |-> callbacks[i] \o <<reason', "cancel">>]
          /\ callbacks' = <<>>]_vars

C22_Witness ==
  /\ Len(invoked) = 2
  /\ invoked[1] = <<2, 1, "xhr", "Operation canceled by user", "cancel">>
  /\ invoked[2] = <<1, 1, "fetch", "Operation canceled by user", "cancel">>
  /\ reason = "timeout"

\* The user interceptors of a chain (the logging interceptor of the
\* constructor hands its argument back)
Users(chain) == SelectSeq(chain, LAMBDA i : i # "log")

\* C23: each chain calls its interceptors one after another in the order of
\* the array: the interceptor awaited is handed the value that went through
\* all those before it and no other, and the value the chain returns (the
\* request handed to the transport, the response that is validated, the
\* error returned to the caller) went through all of them in that order.
C23_ChainsThread ==
  /\ [](\A r \in Reqs :
          /\ (req[r].pc = "reqChain" /\ req[r].idx >= 1) =>
               req[r].interceptedRequest = SubSeq(req[r].arr, 1, req[r].idx - 1)
          /\ (req[r].pc = "respChain" /\ req[r].idx >= 1) =>
               req[r].interceptedResponse = SubSeq(req[r].arr, 1, req[r].idx - 1)
          /\ req[r].pc = "errChain" =>
               req[r].error.via = Users(SubSeq(req[r].arr, 1, req[r].idx - 1)))
  /\ [][\A r \in Reqs :
          /\ (req[r].pc = "reqChain" /\ req'[r].pc \in {"rateLimit", "fetch"}) =>
               /\ req[r].idx = Len(req[r].arr)
               /\ req'[r].interceptedRequest = req[r].arr
          /\ (req[r].pc = "respChain" /\ req'[r].pc # "respChain"
                 /\ hist'[r].lastFail.kind # "responseInterceptor") =>
               /\ req[r].idx = Len(req[r].arr)
               /\ hist'[r].validated = req[r].arr
          /\ (req[r].pc = "errChain" /\ req'[r].pc = "done") =>
               /\ req[r].idx = Len(req[r].arr)
               /\ req'[r].err.via = Users(req[r].arr)]_vars

C23_Witness ==
  \E r \in Reqs :
    /\ req[r].pc = "respChain" /\ req[r].idx = 2
    /\ req[r].arr = <<"p", "f">>
    /\ req[r].interceptedRequest = <<"q", "f">>
    /\ req[r].interceptedResponse = <<"p">>

\* The failure is one the retry controller is to retry: no response, a
\* timeout, a 5xx status or a status listed in retryStatusCodes
Retryable(r, f) ==
  \/ f.kind \in {"network", "timeout"}
  \/ f.kind = "status" /\ (f.status >= 500 \/ f.status \in Codes(r))

\* C24 (as stated): on either transport path a retryable failure of an
\* attempt that has retry budget left is followed by a new attempt and is
\* not what the caller gets.
C24_RetriedOnEitherPath ==
  \A r \in Reqs :
    LET f == hist[r].lastFail
    IN (Retryable(r, f) /\ f.left > 0) => (f.retried /\ ~Returned(r))

\* C25 (as stated): every error a request returns went through the error
\* interceptor chain, on either transport path: the chain ran, and the
\* error is what the user error interceptor made of the terminal failure.
C25_ErrorsThroughChain ==
  \A r \in Reqs :
    (Returned(r) /\ req[r].err # NoError) =>
      /\ hist[r].errRuns = 1
      /\ req[r].err = [hist[r].termErr EXCEPT !.via = <<"e">>]

\* C26 (as stated): a request whose token is cancelled after the first
\* check and before its transport call (while a request interceptor is
\* awaited or at the rate limit wait) makes no transport call afterwards.
C26_NoDispatchAfterCancel ==
  \A r \in Reqs :
    ~(/\ req[r].pc = "fetch" /\ req[r].sent /\ req[r].abort = "aborted"
      /\ ~hist[r].cancelledInFlight)

\* C27 (as stated): a failure raised by a request or response interceptor,
\* of any error type, is never retried, whatever retry budget is left.
C27_InterceptorFailureTerminal ==
  \A r \in Reqs :
    hist[r].lastFail.kind \in {"requestInterceptor", "responseInterceptor"}
      => ~hist[r].lastFail.retried

\* C28 (as stated): when a request or response interceptor fails, the run
\* of its chain ends, the attempt makes no transport call (none further for
\* a response interceptor), validation and decoding are skipped, and the
\* failure is the error handed to the error chain and returned.
C28_FailureEndsChain ==
  /\ [][\A r \in Reqs :
          (/\ hist'[r].nFails = hist[r].nFails + 1
           /\ hist'[r].lastFail.kind \in {"requestInterceptor", "responseInterceptor"}) =>
            /\ req'[r].pc \in {"errChain", "done"}
            /\ hist'[r].dispatches = hist[r].dispatches
            /\ hist'[r].body = hist[r].body
            /\ hist'[r].termErr \in {InterceptorError("Error"), InterceptorError("TypeError")}]_vars
  /\ [](\A r \in Reqs :
          (Returned(r) /\ hist[r].lastFail.kind \in {"requestInterceptor", "responseInterceptor"}) =>
            req[r].err = [hist[r].termErr EXCEPT !.via = <<"e">>])

\* C29 (as stated): a run of a chain calls the interceptors that were in
\* the chain when the run started and no other, whatever is added, removed
\* or cleared while the run waits for an interceptor.
C29_SnapshotIterated ==
  \A r \in Reqs :
    (req[r].pc \in {"reqChain", "respChain", "errChain"} /\ req[r].idx >= 1) =>
      /\ req[r].idx <= Len(req[r].snapshot)
      /\ req[r].arr[req[r].idx] = req[r].snapshot[req[r].idx]

\* The array of a chain by the name of the chain
Chain(kind) ==
  IF kind = "request" THEN requestInterceptors
  ELSE IF kind = "response" THEN responseInterceptors
  ELSE errorInterceptors

\* The sequence without its k-th element
Without(seq, k) == SubSeq(seq, 1, k - 1) \o SubSeq(seq, k + 1, Len(seq))

\* C30 (as stated): the first call of the removal function of a registration
\* takes one entry, that of the registered function, out of its chain and
\* leaves the other entries of the three chains as they are.
C30_RemovesOne ==
  [][\A reg \in removed' \ removed :
       /\ \/ \E k \in 1..Len(Chain(reg[1])) :
                /\ Chain(reg[1])[k] = reg[2]
                /\ Chain(reg[1])' = Without(Chain(reg[1]), k)
          \/ /\ \A k \in 1..Len(Chain(reg[1])) : Chain(reg[1])[k] # reg[2]
             /\ Chain(reg[1])' = Chain(reg[1])
       /\ \A kind \in {"request", "response", "error"} \ {reg[1]} :
            Chain(kind)' = Chain(kind)]_vars

\* C31: a request whose method is not GET never waits at the rate limit
\* block and never changes the rate limit map: no entry and no spacing timer
\* is its own, and no step of such a request sets or deletes an entry.
C31_OnlyGetThrottled ==
  /\ [](\A r \in Reqs : req[r].options.method # "GET" =>
          /\ req[r].pc # "rateLimit"
          /\ hist[r].gates = {}
          /\ \A p \in timers : p[1] # r
          /\ \A h \in Hosts : rateLimitQueue[h] = NoPromise \/ rateLimitQueue[h][1] # r)
  /\ [][\A r \in Reqs :
          (req[r].options.method # "GET" /\ req'[r] # req[r]) =>
            (rateLimitQueue' = rateLimitQueue /\ timers' = timers)]_vars

C31_Witness ==
  \E x, y \in active :
    /\ req[x].options.method = "GET" /\ req[y].options.method = "POST"
    /\ ~req[y].options.useXHR
    /\ rateLimitQueue["a.example"] = <<x, 1>> /\ <<x, 1>> \in timers
    /\ hist[x].dispatches = 1 /\ hist[y].dispatches = 1
    /\ req[y].pc = "fetch" /\ req[y].sent

\* C32: the rate limit map holds an entry for a host only while a spacing
\* timer set for that host is pending, the firing of a spacing timer leaves
\* its host without an entry, and once every timer has fired the map is
\* empty.
C32_EntriesExpire ==
  /\ [](\A h \in Hosts :
          rateLimitQueue[h] # NoPromise =>
            \E p \in timers : req[p[1]].options.host = h)
  /\ [](timers = {} => \A h \in Hosts : rateLimitQueue[h] = NoPromise)
  /\ [][\A p \in timers \ timers' :
          rateLimitQueue'[req[p[1]].options.host] = NoPromise]_vars

C32_Witness ==
  /\ active = {1, 2, 3}
  /\ \A r \in active : /\ Returned(r) /\ ~req[r].options.useXHR
                        /\ req[r].options.host = "a.example"
                        /\ hist[r].dispatches = 1
  /\ timers = {}
  /\ \A h \in Hosts : rateLimitQueue[h] = NoPromise

\* C33 (as stated): a response whose status is rejected is retried while
\* retry budget is left when the status is listed in retryStatusCodes, and
\* when it is a 5xx status whether listed or not.
C33_StatusRetried ==
  \A r \in Reqs :
    LET f == hist[r].lastFail
    IN (/\ f.kind = "status" /\ f.left > 0
        /\ (f.status \in Codes(r) \/ (f.status >= 500 /\ f.status < 600)))
         => f.retried

\* C34: a retry calls request() again with the options of the first call
\* (only the budget differs) and the attempt goes through the pipeline from
\* its top: the token is checked again, every request interceptor is applied
\* again before the transport call, and a GET passes the rate limiting block
\* again (it waits when the host has an entry and installs its own).
C34_RetryFromTheTop ==
  /\ [](\A r \in Reqs :
          (req[r].attempt >= 2 /\ req[r].pc \in {"rateLimit", "fetch"}) =>
            req[r].interceptedRequest = requestInterceptors)
  /\ [][\A r \in Reqs :
          /\ (req[r].pc = "backoff" /\ req'[r].pc # "backoff") =>
               /\ req'[r].attempt = req[r].attempt + 1
               /\ \A k \in {"method", "host", "useXHR", "cancelToken",
                             "responseType", "timeout"} :
                    req'[r].options[k] = req[r].options[k]
               /\ ("timeout" \in req'[r].options.given) = ("timeout" \in req[r].options.given)
               /\ IF req[r].options.cancelToken /\ reason # NotCancelled
                  THEN /\ hist'[r].lastFail.kind = "cancel"
                       /\ hist'[r].dispatches = hist[r].dispatches
                  ELSE /\ req'[r].pc = "reqChain"
                       /\ req'[r].arr = requestInterceptors
                       /\ req'[r].idx = 1
          /\ (req[r].pc # "fetch" /\ req'[r].pc = "fetch"
                /\ req'[r].options.method = "GET") =>
               /\ rateLimitQueue'[req'[r].options.host] = <<r, req'[r].attempt>>
               /\ <<r, req'[r].attempt>> \in timers'
               /\ req[r].pc = "reqChain" =>
                    rateLimitQueue[req[r].options.host] = NoPromise]_vars

C34_Witness ==
  \E r \in Reqs :
    /\ req[r].attempt = 2 /\ req[r].options.method = "GET"
    /\ req[r].options.cancelToken /\ reason = NotCancelled
    /\ req[r].pc = "fetch" /\ req[r].sent
    /\ req[r].interceptedRequest = <<"q">>
    /\ hist[r].dispatches = 2
    /\ rateLimitQueue[req[r].options.host] = <<r, 2>>
    /\ <<r, 2>> \in timers

\* C35: a cancel that comes while a request holding the token waits in a
\* retry backoff does not end the wait; when the timer fires the attempt
\* fails at the token check, no transport call is made from the cancel on,
\* and the request ends with the cancellation error.
C35_CancelDuringBackoff ==
  /\ [][\A r \in Reqs :
          /\ (req[r].pc = "backoff" /\ reason' # reason) => req'[r] = req[r]
          /\ (req[r].pc = "backoff" /\ req[r].options.cancelToken
                /\ reason # NotCancelled) =>
               /\ hist'[r].dispatches = hist[r].dispatches
               /\ req'[r].pc # "backoff" =>
                    /\ hist'[r].lastFail.kind = "cancel"
                    /\ req'[r].pc \in {"backoff", "errChain", "done"}]_vars
  /\ [](\A r \in Reqs :
          hist[r].lastFail.kind = "cancel" =>
            /\ hist[r].dispatches = hist[r].lastFail.disp
            /\ req[r].pc \in {"backoff", "errChain", "done", "rejected"}
            /\ req[r].pc # "backoff" => isCancellationError(hist[r].termErr)
            /\ Returned(r) => (isCancellationError(req[r].err) /\ req[r].data = Null))

C35_Witness ==
  \E r \in Reqs :
    /\ Returned(r) /\ req[r].attempt = 2
    /\ ~hist[r].preCancelled /\ ~hist[r].cancelledInFlight
    /\ mergeOptions(req[r].options).timeout = 0
    /\ hist[r].dispatches = 1 /\ hist[r].transportFails = 1 /\ hist[r].nFails = 2
    /\ hist[r].lastFail.kind = "cancel"
    /\ isCancellationError(req[r].err)

\* C36: on the fetch path every response received, whatever its status,
\* is handed to the response interceptor chain first; the status is
\* judged and the body decoded only when the last interceptor has
\* returned, on the response the chain returned.
C36_ChainBeforeValidation ==
  [][\A r \in Reqs : ~req[r].options.useXHR =>
       /\ (req[r].pc = "fetch" /\ req'[r].pc # "fetch"
             /\ hist'[r].nFails = hist[r].nFails) =>
            /\ req'[r].pc = "respChain"
            /\ req'[r].arr = responseInterceptors
            /\ req'[r].idx = 1
            /\ req'[r].interceptedResponse = <<>>
       /\ (\/ /\ hist'[r].nFails = hist[r].nFails + 1
               /\ hist'[r].lastFail.kind \in {"status", "decode"}
            \/ /\ req[r].pc # "done" /\ req'[r].pc = "done"
               /\ req'[r].err = NoError) =>
            /\ req[r].pc = "respChain"
            /\ req[r].idx = Len(req[r].arr)
            /\ hist'[r].validated = responseInterceptors]_vars

C36_Witness ==
  \E r \in Reqs :
    /\ ~req[r].options.useXHR /\ Returned(r)
    /\ hist[r].lastFail.kind = "status" /\ hist[r].lastFail.status = 404
    /\ hist[r].validated = <<"p">>
    /\ hist[r].termErr.status = 404

\* C37 (as stated): the error of a rejected status on the fetch path carries
\* the status and, as its data, the decoded JSON body when the body decodes,
\* else the body text; the status text is used for no body that can be read.
C37_ErrorBodyFallback ==
  [][\A r \in Reqs :
       (/\ ~req[r].options.useXHR
        /\ hist'[r].nFails = hist[r].nFails + 1
        /\ hist'[r].lastFail.kind = "status"
        /\ ~hist'[r].lastFail.retried) =>
         LET response == req[r].response
         IN /\ hist'[r].termErr.status = response.status
            /\ IF JSONparse(response.body) = "throws"
               THEN hist'[r].termErr.data = response.body
               ELSE hist'[r].termErr.data \in {JSONparse(response.body), response.body}]_vars

\* C38: a request with retry budget R makes at most R+1 transport calls,
\* whatever its attempts end with; every retry runs with a budget one
\* smaller than the attempt before it, and the budget is never negative.
C38_BudgetBoundsDispatches ==
  /\ [](\A r \in Reqs :
          /\ hist[r].dispatches <= hist[r].budget + 1
          /\ req[r].attempt <= hist[r].budget + 1
          /\ req[r].retries >= 0
          /\ req[r].attempt >= 1 => req[r].retries = hist[r].budget - (req[r].attempt - 1))
  /\ [][\A r \in Reqs :
          (req[r].pc = "backoff" /\ req'[r].pc # "backoff") =>
            /\ req[r].retries > 0
            /\ req'[r].retries = req[r].retries - 1]_vars

C38_Witness ==
  \E r \in Reqs :
    /\ hist[r].budget = MaxRetries /\ hist[r].dispatches = MaxRetries + 1
    /\ req[r].attempt = MaxRetries + 1 /\ req[r].retries = 0
    /\ hist[r].lastFail.kind = "status" /\ hist[r].lastFail.status = 503
    /\ Returned(r)

\* C39 (as stated): when every transport call and every interceptor
\* settles and every timer fires, every request that is issued eventually
\* returns its [error, data] tuple.
C39_EventuallyReturns ==
  \A r \in Reqs : (r \in active) ~> Returned(r)

\* C40 (as stated): the firing of a spacing timer takes out of the rate
\* limit map no entry but the one its own request installed: an entry
\* installed by another request, whose own timer is still pending, stays.
C40_DeletesOwnEntryOnly ==
  [][\A p \in timers \ timers' : \A h \in Hosts :
       (rateLimitQueue[h] # p /\ rateLimitQueue[h] \in timers')
         => rateLimitQueue'[h] = rateLimitQueue[h]]_vars

====
